---------------------------- MODULE Spec2Model ----------------------------
(***************************************************************************)
(* A model of the CHIP-8 interpreter core (wasm/chip8.cpp) and of the host *)
(* session that drives it (src/main.ts).                                   *)
(*                                                                         *)
(* The two big byte arrays of the machine, memory[4096] and screen[64*32], *)
(* are zero-initialised globals.  They are held as finite maps from index  *)
(* to NON-ZERO byte: an index missing from the map holds 0.  Get and Set   *)
(* read and write such an array and keep the encoding canonical, so two    *)
(* arrays are equal exactly when their maps are equal.  The register file  *)
(* V is a total function on 0..15.                                         *)
(***************************************************************************)
EXTENDS Integers, Sequences, FiniteSets, TLC

SCREEN_WIDTH == 64
SCREEN_HEIGHT == 32
MEMORY_SIZE == 4096
NUM_REGISTERS == 16
PROGRAM_START == 512
CYCLES_PER_FRAME == 10

\* Bound of the model: animation frames the host renders in one session.
MaxFrames == 2

\* Bounds of the model: calls of exported functions one caller makes, and
\* the largest numCycles it passes to runCycles.
MaxCalls == 4
MaxCycles == 4

Byte == 0..255
Word16 == 65536
ScreenCells == 0..(SCREEN_WIDTH * SCREEN_HEIGHT - 1)

-----------------------------------------------------------------------------
\* Zero-initialised byte arrays as maps of their non-zero cells.

ZeroArray == [a \in {} |-> 0]

Get(arr, a) == IF a \in DOMAIN arr THEN arr[a] ELSE 0

Set(arr, a, v) ==
  IF v = 0
    THEN [b \in DOMAIN arr \ {a} |-> arr[b]] @@ ZeroArray
    ELSE (a :> v) @@ arr

\* memory[a] for an index the code does not check: inside the array the byte
\* stored there, outside it (undefined behaviour) whatever byte lies there.
MemRead(mem, a) == IF a < MEMORY_SIZE THEN {Get(mem, a)} ELSE Byte

-----------------------------------------------------------------------------
\* Bit-level helpers (C operators on unsigned bytes and words).

RECURSIVE Pow2(_)
Pow2(n) == IF n = 0 THEN 1 ELSE 2 * Pow2(n - 1)

\* (b >> k) & 1
Bit(b, k) == (b \div Pow2(k)) % 2

\* a ^ b on 8-bit values
RECURSIVE XorBits(_, _, _)
XorBits(a, b, n) ==
  IF n = 0 THEN 0
  ELSE ((a + b) % 2) + 2 * XorBits(a \div 2, b \div 2, n - 1)

Xor8(a, b) == XorBits(a, b, 8)

\* Decoded fields of an instruction word.
Family(w) == (w \div 4096) * 4096       \* opcode & 0xF000
RegX(w) == (w \div 256) % 16            \* (opcode & 0x0F00) >> 8
RegY(w) == (w \div 16) % 16             \* (opcode & 0x00F0) >> 4
ImmNN(w) == w % 256                     \* opcode & 0x00FF
ImmNNN(w) == w % 4096                   \* opcode & 0x0FFF
ImmN(w) == w % 16                       \* opcode & 0x000F


-----------------------------------------------------------------------------
\* The machine state (chip8.cpp globals), the local of emulateCycle that
\* outlives the fetch (opcode), the loop of runCycles (numCycles, i) and the
\* position of the host session (host, frames).  op names the operation
\* that produced the current state and prev holds the machine state that
\* operation started from; together they let a property of one operation
\* be stated as a predicate of the state it leaves.  calls counts the calls
\* a caller of the exported functions has made, and loaded holds the
\* arguments (program, size) of the last call of loadProgram.  hook is the
\* state of one component instance that calls the React hook useEvent.
VARIABLES memory, V, I, pc, screen, opcode, numCycles, i, host, frames,
          op, prev, calls, loaded, hook

vars == <<memory, V, I, pc, screen, opcode, numCycles, i, host, frames,
          op, prev, calls, loaded, hook>>

Machine == [memory |-> memory, V |-> V, I |-> I, pc |-> pc, screen |-> screen]

-----------------------------------------------------------------------------
\* The instruction implementations, as functions of the values they read.

\* Mutant of cls: the size taken as one bit per pixel, so only the first
\* SCREEN_WIDTH * SCREEN_HEIGHT / 8 bytes are zeroed.
clsBitPacked ==
  [c \in {d \in DOMAIN screen : d >= (SCREEN_WIDTH * SCREEN_HEIGHT) \div 8} |->
     screen[c]] @@ ZeroArray

\* cls(): memset(screen, 0, SCREEN_WIDTH * SCREEN_HEIGHT)
cls == ZeroArray

\* Mutant of Fetch: the two bytes composed little-endian.
FetchLittleEndian(hi, lo) == lo * 256 + hi

\* opcode = (memory[pc] << 8) | memory[pc + 1]
Fetch(hi, lo) == hi * 256 + lo

\* Mutant of Advance: pc++ in place of pc += 2.
AdvanceByOne(pcv) == (pcv + 1) % Word16

\* pc += 2 on a uint16_t
Advance(pcv) == (pcv + 2) % Word16

\* Mutant of JumpTarget: the common pc += 2 applied after the jump.
JumpTargetThenAdvance(w) == (ImmNNN(w) + 2) % Word16

\* 1NNN: pc = opcode & 0x0FFF
JumpTarget(w) == ImmNNN(w)

\* Mutant of SkipIfEqual: the test inverted (the 4XNN instruction).
SkipIfNotEqual(pcv, regs, w) ==
  IF regs[RegX(w)] # ImmNN(w) THEN (pcv + 4) % Word16 ELSE (pcv + 2) % Word16

\* 3XNN: pc += 4 if V[x] == nn, else pc += 2
SkipIfEqual(pcv, regs, w) ==
  IF regs[RegX(w)] = ImmNN(w) THEN (pcv + 4) % Word16 ELSE (pcv + 2) % Word16

\* Mutant of LoadImmediate: the register index taken from bits 4-7.
LoadImmediateIntoY(regs, w) == [regs EXCEPT ![RegY(w)] = ImmNN(w)]

\* 6XNN: V[x] = nn
LoadImmediate(regs, w) == [regs EXCEPT ![RegX(w)] = ImmNN(w)]

\* Mutant of AddImmediate: VF receives the carry, as 8XY4 would set it.
AddImmediateWithCarry(regs, w) ==
  [r \in DOMAIN regs |->
     IF r = RegX(w) THEN (regs[r] + ImmNN(w)) % 256
     ELSE IF r = 15 THEN (IF regs[RegX(w)] + ImmNN(w) > 255 THEN 1 ELSE 0)
     ELSE regs[r]]

\* 7XNN: V[x] += nn on a uint8_t
AddImmediate(regs, w) ==
  [regs EXCEPT ![RegX(w)] = (regs[RegX(w)] + ImmNN(w)) % 256]

\* Mutant of LoadIndex: the opcode stored without the 0x0FFF mask.
LoadIndexUnmasked(w) == w

\* Mutant of LoadIndex: the address masked to its low byte.
LoadIndexLowByte(w) == ImmNN(w)

\* ANNN: I = opcode & 0x0FFF
LoadIndex(w) == ImmNNN(w)

\* Mutant of DrawPixel: bit 0 of the sprite byte taken as the leftmost pixel.
DrawPixelLsbFirst(scr, x, y, row, col, spriteByte) ==
  LET spritePixel == Bit(spriteByte, col)
      sx == (x + col) % SCREEN_WIDTH
      sy == (y + row) % SCREEN_HEIGHT
      cell == sy * SCREEN_WIDTH + sx
  IN  Set(scr, cell, Xor8(Get(scr, cell), spritePixel))

\* Mutant of DrawPixel: the sprite pixel is OR-ed onto the screen.
DrawPixelOr(scr, x, y, row, col, spriteByte) ==
  LET spritePixel == Bit(spriteByte, 7 - col)
      sx == (x + col) % SCREEN_WIDTH
      sy == (y + row) % SCREEN_HEIGHT
      cell == sy * SCREEN_WIDTH + sx
  IN  Set(scr, cell, IF spritePixel = 1 /\ Get(scr, cell) % 2 = 0
                       THEN Get(scr, cell) + 1 ELSE Get(scr, cell))

\* Mutant of DrawPixel: a pixel that falls off the right or bottom edge is
\* clipped instead of wrapped.
DrawPixelClipped(scr, x, y, row, col, spriteByte) ==
  LET spritePixel == Bit(spriteByte, 7 - col)
      sx == x + col
      sy == y + row
      cell == sy * SCREEN_WIDTH + sx
  IN  IF sx >= SCREEN_WIDTH \/ sy >= SCREEN_HEIGHT
        THEN scr
        ELSE Set(scr, cell, Xor8(Get(scr, cell), spritePixel))

\* Mutant of DrawPixel: the row wrapped at the sprite width, 8, in place of
\* SCREEN_HEIGHT.
DrawPixelRowsModEight(scr, x, y, row, col, spriteByte) ==
  LET spritePixel == Bit(spriteByte, 7 - col)
      sx == (x + col) % SCREEN_WIDTH
      sy == (y + row) % 8
      cell == sy * SCREEN_WIDTH + sx
  IN  Set(scr, cell, Xor8(Get(scr, cell), spritePixel))

\* Mutant of DrawPixel: the sprite bit is masked but not shifted down, so
\* the value XORed into the framebuffer is 0x80 >> col instead of 1.
DrawPixelUnshifted(scr, x, y, row, col, spriteByte) ==
  LET spritePixel == Bit(spriteByte, 7 - col) * Pow2(7 - col)
      sx == (x + col) % SCREEN_WIDTH
      sy == (y + row) % SCREEN_HEIGHT
      cell == sy * SCREEN_WIDTH + sx
  IN  Set(scr, cell, Xor8(Get(scr, cell), spritePixel))

\* One pixel of DXYN: screen[sy * SCREEN_WIDTH + sx] ^= spritePixel
DrawPixel(scr, x, y, row, col, spriteByte) ==
  LET spritePixel == Bit(spriteByte, 7 - col)
      sx == (x + col) % SCREEN_WIDTH
      sy == (y + row) % SCREEN_HEIGHT
      cell == sy * SCREEN_WIDTH + sx
  IN  Set(scr, cell, Xor8(Get(scr, cell), spritePixel))

\* The inner loop of DXYN: for (col = 0; col < 8; col++).  The screen
\* after one pixel is bound as a value (s) before the next iteration runs.
RECURSIVE DrawCols(_, _, _, _, _, _)
DrawCols(scr, x, y, row, col, spriteByte) ==
  IF col < 8
    THEN CHOOSE done \in
           {DrawCols(s, x, y, row, c, spriteByte) :
              s \in {DrawPixel(scr, x, y, row, col, spriteByte)},
              c \in {col + 1}} : TRUE
    ELSE scr

\* The outer loop of DXYN: for (row = 0; row < height; row++), sprite[row]
\* being the byte read as memory[I + row].
RECURSIVE DrawRows(_, _, _, _, _, _)
DrawRows(scr, x, y, height, row, sprite) ==
  IF row < height
    THEN CHOOSE done \in
           {DrawRows(s, x, y, height, r, sprite) :
              s \in {DrawCols(scr, x, y, row, 0, sprite[row])},
              r \in {row + 1}} : TRUE
    ELSE scr

\* DXYN on the register file: x = V[X], y = V[Y], height = N.
DrawSprite(scr, regs, w, sprite) ==
  DrawRows(scr, regs[RegX(w)], regs[RegY(w)], ImmN(w), 0, sprite)

\* Mutant of SpriteReads: row r is read from memory[I + r + 1].
SpriteReadsOffByOne(mem, idx, height) ==
  LET rows == 0..(height - 1)
      outside == {r \in rows : idx + r + 1 >= MEMORY_SIZE}
  IN  {[r \in rows |-> IF r \in outside THEN f[r] ELSE Get(mem, idx + r + 1)] :
         f \in [outside -> Byte]}

\* The bytes memory[I + row], row in [0, height), that one DXYN can read:
\* the rows inside memory are fixed, a row past its end is any byte.
SpriteReads(mem, idx, height) ==
  LET rows == 0..(height - 1)
      outside == {r \in rows : idx + r >= MEMORY_SIZE}
  IN  {[r \in rows |-> IF r \in outside THEN f[r] ELSE Get(mem, idx + r)] :
         f \in [outside -> Byte]}

\* Mutant of CopyProgram: the copy starts one byte late, at 0x201.
CopyProgramOffByOne(mem, program, size) ==
  LET target == {PROGRAM_START + k : k \in 1..size}
      written == {a \in target : program[a - PROGRAM_START] # 0}
  IN  [a \in (DOMAIN mem \ target) \cup written |->
         IF a \in target THEN program[a - PROGRAM_START] ELSE mem[a]]

\* Mutant of CopyProgram: the program area is zeroed before the copy.
CopyProgramZeroingRest(mem, program, size) ==
  LET target == {PROGRAM_START + k : k \in 0..(size - 1)}
      written == {a \in target : program[a - PROGRAM_START + 1] # 0}
  IN  [a \in {b \in DOMAIN mem : b < PROGRAM_START} \cup written |->
         IF a \in target THEN program[a - PROGRAM_START + 1] ELSE mem[a]]

\* memcpy(memory + 0x200, program, size)
CopyProgram(mem, program, size) ==
  LET target == {PROGRAM_START + k : k \in 0..(size - 1)}
      written == {a \in target : program[a - PROGRAM_START + 1] # 0}
  IN  [a \in (DOMAIN mem \ target) \cup written |->
         IF a \in target THEN program[a - PROGRAM_START + 1] ELSE mem[a]]

-----------------------------------------------------------------------------
\* The exported operations of chip8.cpp, as actions on the machine state.

\* Mutant of loadProgram: the load also clears the framebuffer, the
\* registers and the index register.
loadProgramWithReset(program, size) ==
  /\ memory' = CopyProgram(memory, program, size)
  /\ pc' = PROGRAM_START
  /\ screen' = cls
  /\ V' = [r \in 0..(NUM_REGISTERS - 1) |-> 0]
  /\ I' = 0

\* void loadProgram(uint8_t *program, int size)
loadProgram(program, size) ==
  /\ memory' = CopyProgram(memory, program, size)
  /\ pc' = PROGRAM_START
  /\ UNCHANGED <<V, I, screen>>

\* Mutant of init_chip8: the reset also zeroes memory[].
init_chip8_clearing_memory ==
  /\ screen' = cls
  /\ V' = [r \in 0..(NUM_REGISTERS - 1) |-> 0]
  /\ I' = 0
  /\ pc' = PROGRAM_START
  /\ memory' = ZeroArray

\* Mutant of init_chip8: the call of cls() left out.
init_chip8_without_cls ==
  /\ V' = [r \in 0..(NUM_REGISTERS - 1) |-> 0]
  /\ I' = 0
  /\ pc' = PROGRAM_START
  /\ UNCHANGED <<memory, screen>>

\* void init_chip8()
init_chip8 ==
  /\ screen' = cls
  /\ V' = [r \in 0..(NUM_REGISTERS - 1) |-> 0]
  /\ I' = 0
  /\ pc' = PROGRAM_START
  /\ UNCHANGED memory

\* The switch of emulateCycle as a standard CHIP-8 would have it for DXYN:
\* VF receives the collision flag, 1 when the draw turned a set pixel off.
ExecuteWithCollisionFlag(w, sprite) ==
  IF Family(w) = 53248
    THEN /\ screen' = DrawSprite(screen, V, w, sprite)
         /\ V' = [V EXCEPT ![15] =
                    IF \E cell \in DOMAIN screen :
                         Get(DrawSprite(screen, V, w, sprite), cell) = 0
                      THEN 1 ELSE 0]
         /\ pc' = Advance(pc)
         /\ I' = I
    ELSE /\ screen' = IF w = 224 THEN cls ELSE screen
         /\ pc' = IF Family(w) = 4096 THEN JumpTarget(w)
                  ELSE IF Family(w) = 12288 THEN SkipIfEqual(pc, V, w)
                  ELSE Advance(pc)
         /\ V' = IF Family(w) = 24576 THEN LoadImmediate(V, w)
                 ELSE IF Family(w) = 28672 THEN AddImmediate(V, w)
                 ELSE V
         /\ I' = IF Family(w) = 40960 THEN LoadIndex(w) ELSE I

\* The switch of emulateCycle with 2NNN implemented as a transfer of control
\* to NNN instead of the stub that reports it.
ExecuteWithCall(w, sprite) ==
  /\ screen' = IF w = 224 THEN cls
               ELSE IF Family(w) = 53248
                 THEN DrawSprite(screen, V, w, sprite)
               ELSE screen
  /\ pc' = IF Family(w) = 4096 \/ Family(w) = 8192 THEN JumpTarget(w)
           ELSE IF Family(w) = 12288 THEN SkipIfEqual(pc, V, w)
           ELSE Advance(pc)
  /\ V' = IF Family(w) = 24576 THEN LoadImmediate(V, w)
          ELSE IF Family(w) = 28672 THEN AddImmediate(V, w)
          ELSE V
  /\ I' = IF Family(w) = 40960 THEN LoadIndex(w) ELSE I

\* The switch of emulateCycle on the fetched word w; sprite holds the bytes
\* a DXYN reads through the index register.
Execute(w, sprite) ==
  CASE Family(w) = 0 ->
         /\ screen' = IF w = 224 THEN cls ELSE screen
         /\ pc' = Advance(pc)
         /\ UNCHANGED <<V, I>>
    [] Family(w) = 4096 ->
         /\ pc' = JumpTarget(w)
         /\ UNCHANGED <<V, I, screen>>
    [] Family(w) = 12288 ->
         /\ pc' = SkipIfEqual(pc, V, w)
         /\ UNCHANGED <<V, I, screen>>
    [] Family(w) = 24576 ->
         /\ V' = LoadImmediate(V, w)
         /\ pc' = Advance(pc)
         /\ UNCHANGED <<I, screen>>
    [] Family(w) = 28672 ->
         /\ V' = AddImmediate(V, w)
         /\ pc' = Advance(pc)
         /\ UNCHANGED <<I, screen>>
    [] Family(w) = 40960 ->
         /\ I' = LoadIndex(w)
         /\ pc' = Advance(pc)
         /\ UNCHANGED <<V, screen>>
    [] Family(w) = 53248 ->
         /\ screen' = DrawSprite(screen, V, w, sprite)
         /\ pc' = Advance(pc)
         /\ UNCHANGED <<V, I>>
    [] OTHER ->
         /\ pc' = Advance(pc)
         /\ UNCHANGED <<V, I, screen>>

\* Whether the cycle about to run reads outside memory[]: in the fetch, or
\* in the sprite rows of the DXYN that word w is.
ReadsOutside(w) ==
  \/ pc + 1 >= MEMORY_SIZE
  \/ Family(w) = 53248 /\ ImmN(w) > 0 /\ I + ImmN(w) - 1 >= MEMORY_SIZE

\* void emulateCycle(): fetch, decode, execute.  A read outside memory[] is
\* undefined behaviour: it yields any byte, and the run is followed no
\* further than the cycle that made it (host becomes "undefined").
emulateCycle ==
  \E hi \in MemRead(memory, pc), lo \in MemRead(memory, pc + 1) :
    LET w == Fetch(hi, lo) IN
    \E sprite \in (IF Family(w) = 53248
                     THEN SpriteReads(memory, I, ImmN(w))
                     ELSE {<<>>}) :
      /\ opcode' = w
      /\ Execute(w, sprite)
      /\ host' = IF ReadsOutside(w) THEN "undefined" ELSE host
      /\ UNCHANGED memory

-----------------------------------------------------------------------------
\* The host session (src/main.ts): initEmulator, then one render per frame.

\* The program images the host may fetch, as byte sequences.
Op(a, b, c, d) == a * 4096 + b * 256 + c * 16 + d

Assemble(ws) ==
  [k \in 1..(2 * Len(ws)) |->
     IF k % 2 = 1 THEN ws[(k + 1) \div 2] \div 256 ELSE ws[k \div 2] % 256]

\* Operand values the images range over.
Vals == {0, 1, 5, 63, 64, 70, 128, 200, 255}
Addrs == {0, 1, 511, 512, 513, 514, 528, 4094, 4095}
NearAddrs == {0, 513, 520, 528}

\* One instruction of every family, run from the reset state.
SingleWords ==
  {0, 224, 225, 238, 291, 4095, 8483, 61450, 61797, 65535}
  \cup {Op(1, 0, 0, 0) + a : a \in Addrs}
  \cup {Op(3, x, 0, 0) + nn : x \in 0..15, nn \in {0, 5, 255}}
  \cup {Op(k, 1, 2, 3) : k \in {4, 5, 8, 9, 11, 12, 14}}
  \cup {Op(6, x, 0, 0) + nn : x \in 0..15, nn \in Vals}
  \cup {Op(7, x, 0, 0) + nn : x \in 0..15, nn \in Vals}
  \cup {Op(10, 0, 0, 0) + a : a \in Addrs}
  \cup {Op(13, x, y, n) : x \in {0, 15}, y \in {0, 1}, n \in {0, 1, 15}}

RomsSingle == {Assemble(<<w>>) : w \in SingleWords}

\* An instruction run twice in a row after a prologue that leaves the index
\* register, the framebuffer and two registers non-zero.
RegPairs == {<<0, 1>>, <<15, 2>>, <<4, 15>>, <<3, 3>>}

ContextWords(x, y, v) ==
  {0, 224, 238, 8483, 61450, Op(8, x, y, 4), Op(4, x, 0, 0) + v}
  \cup {Op(1, 0, 0, 0) + a : a \in NearAddrs}
  \cup {Op(10, 0, 0, 0) + a : a \in NearAddrs}
  \cup {Op(k, x, 0, 0) + nn : k \in {3, 6, 7}, nn \in {0, 1, 56, 255, v}}
  \cup {Op(k, y, 0, 0) + nn : k \in {3, 6, 7}, nn \in {9, 247}}
  \cup {Op(13, x, y, n) : n \in {0, 2, 5}}
  \cup {Op(13, y, x, 1)}

RomsContext ==
  UNION {{Assemble(<<Op(10, 2, 0, 0), Op(13, 0, 0, 3),
                     Op(6, p[1], 0, 0) + v, Op(6, p[2], 0, 0) + 9, w, w>>) :
            w \in ContextWords(p[1], p[2], v)} :
         p \in RegPairs, v \in {0, 1, 200, 255}}

\* Sprites of 15 rows.
Sprites ==
  {[r \in 1..15 |-> 255],
   <<129, 66, 36, 24, 1, 128, 170, 85, 0, 255, 15, 240, 3, 192, 126>>}

\* A sprite drawn three times, moved three pixels right, drawn twice more
\* over the first copy, then the screen cleared: ten instructions, the
\* sprite rows after them (at 0x214).
RomsDraw ==
  {Assemble(<<Op(10, 2, 1, 4),
              Op(6, p[1], 0, 0) + vx, Op(6, p[2], 0, 0) + vy,
              Op(13, p[1], p[2], n), Op(13, p[1], p[2], n),
              Op(13, p[1], p[2], n),
              Op(7, p[1], 0, 0) + 3,
              Op(13, p[1], p[2], n), Op(13, p[1], p[2], n),
              224>>) \o sprite :
     p \in {<<0, 1>>, <<15, 7>>, <<5, 5>>},
     vx \in {0, 6, 60, 63, 64, 70, 255},
     vy \in {0, 20, 31, 32, 250},
     n \in {0, 1, 8, 15},
     sprite \in Sprites}

\* An image that fills memory to its last byte, its sprite in the last 15
\* bytes (I + N = 4096), and images whose sprite reads run past the end.
RomsEdge ==
  {[k \in 1..(MEMORY_SIZE - PROGRAM_START) |->
      IF k <= 10 THEN Assemble(<<Op(10, 15, 15, 1), Op(6, 0, 0, 0) + vx,
                                 Op(6, 1, 0, 0) + 31, Op(13, 0, 1, 15),
                                 Op(13, 0, 1, 15)>>)[k]
      ELSE IF k > MEMORY_SIZE - PROGRAM_START - 15 THEN 255 - (k % 7)
      ELSE 0] : vx \in {0, 61}}
  \cup {Assemble(<<Op(10, 15, 15, 15), Op(13, 0, 0, 2)>>),
        Assemble(<<Op(10, 15, 15, 2), Op(13, 0, 0, 15)>>)}

Roms == RomsSingle \cup RomsContext \cup RomsDraw \cup RomsEdge

\* initEmulator, first half: Module._init()
HostInit ==
  /\ host = "boot"
  /\ init_chip8
  /\ host' = "initialized"
  /\ op' = "init_chip8"
  /\ prev' = Machine
  /\ UNCHANGED hook
  /\ UNCHANGED <<opcode, numCycles, i, frames, calls, loaded>>

\* initEmulator, second half: Module._loadProgram(ptr, programData.length)
HostLoad ==
  /\ host = "initialized"
  /\ \E rom \in Roms :
       /\ loadProgram(rom, Len(rom))
       /\ loaded' = <<rom, Len(rom)>>
  /\ host' = "ready"
  /\ op' = "loadProgram"
  /\ prev' = Machine
  /\ UNCHANGED hook
  /\ UNCHANGED <<opcode, numCycles, i, frames, calls>>

\* render: the call Module._run(10, delta) enters runCycles(numCycles)
RunCyclesCall ==
  /\ host = "ready"
  /\ frames < MaxFrames
  /\ numCycles' = CYCLES_PER_FRAME
  /\ i' = 0
  /\ host' = "running"
  /\ op' = "runCycles"
  /\ prev' = Machine
  /\ UNCHANGED hook
  /\ UNCHANGED <<memory, V, I, pc, screen, opcode, frames, calls, loaded>>

\* Mutant of RunCyclesStep: the loop is left at the first word that is not
\* an implemented instruction.
RunCyclesStepUntilUnsupported ==
  /\ host = "running"
  /\ i < numCycles
  /\ emulateCycle
  /\ i' = IF opcode' = 224 \/
             Family(opcode') \in {4096, 12288, 24576, 28672, 40960, 53248}
            THEN i + 1
            ELSE numCycles
  /\ op' = "emulateCycle"
  /\ prev' = Machine
  /\ UNCHANGED hook
  /\ UNCHANGED <<numCycles, frames, calls, loaded>>

\* runCycles: one iteration of for (i = 0; i < numCycles; i++) emulateCycle()
RunCyclesStep ==
  /\ host = "running"
  /\ i < numCycles
  /\ emulateCycle
  /\ i' = i + 1
  /\ op' = "emulateCycle"
  /\ prev' = Machine
  /\ UNCHANGED hook
  /\ UNCHANGED <<numCycles, frames, calls, loaded>>

\* runCycles: the loop condition fails and the call returns
RunCyclesReturn ==
  /\ host = "running"
  /\ i >= numCycles
  /\ host' = "returned"
  /\ op' = "return"
  /\ prev' = Machine
  /\ UNCHANGED hook
  /\ UNCHANGED <<memory, V, I, pc, screen, opcode, numCycles, i, frames,
               calls, loaded>>

\* Mutant of RenderScreen: the framebuffer is read and uploaded at the top of
\* render, before the call of runCycles instead of after its return.
RenderScreenBeforeRun ==
  /\ host = "ready"
  /\ frames < MaxFrames
  /\ frames' = frames + 1
  /\ host' = "ready"
  /\ op' = "getScreen"
  /\ prev' = Machine
  /\ UNCHANGED hook
  /\ UNCHANGED <<memory, V, I, pc, screen, opcode, numCycles, i, calls,
               loaded>>

\* render: Module._getScreen() and the texture upload, then the next frame
\* is requested
RenderScreen ==
  /\ host = "returned"
  /\ frames' = frames + 1
  /\ host' = "ready"
  /\ op' = "getScreen"
  /\ prev' = Machine
  /\ UNCHANGED hook
  /\ UNCHANGED <<memory, V, I, pc, screen, opcode, numCycles, i, calls,
               loaded>>

\* The state of a freshly instantiated module: every global is zero.
Init ==
  /\ memory = ZeroArray
  /\ V = [r \in 0..(NUM_REGISTERS - 1) |-> 0]
  /\ I = 0
  /\ pc = 0
  /\ screen = ZeroArray
  /\ opcode = 0
  /\ numCycles = 0
  /\ i = 0
  /\ host = "boot"
  /\ frames = 0
  /\ op = "none"
  /\ calls = 0
  /\ loaded = <<<<>>, 0>>
  /\ hook = [renders |-> 0, fn |-> "none", ref |-> "none", deps |-> "none",
             effect |-> "none", callback |-> 0, called |-> "none",
             op |-> "none"]
  /\ prev = [memory |-> ZeroArray, V |-> [r \in 0..(NUM_REGISTERS - 1) |-> 0],
             I |-> 0, pc |-> 0, screen |-> ZeroArray]

Next ==
  \/ HostInit
  \/ HostLoad
  \/ RunCyclesCall
  \/ RunCyclesStep
  \/ RunCyclesReturn
  \/ RenderScreen

Spec == Init /\ [][Next]_vars

-----------------------------------------------------------------------------
\* A caller of the exported functions of chip8.cpp that makes up to MaxCalls
\* calls in any order after a first init_chip8: the memory image a load
\* meets, and the state a reset or a load meets, are whatever the earlier
\* calls left.

\* The program of the draw scenario: I = 0x210, V0 = 0, V1 = 0, D011.
SpriteProgram == <<162, 16, 96, 0, 97, 0, 208, 17>>

\* The same program followed by its sprite byte 0xFF at 0x210.
SpritePreload == SpriteProgram \o <<0, 0, 0, 0, 0, 0, 0, 0, 255>>

\* A jump to its own address.
JumpSelf == Assemble(<<Op(1, 2, 0, 0)>>)

\* Words the interpreter does not implement: 00EE, 2123, F00A, 8124.
Unsupported == Assemble(<<238, 8483, 61450, Op(8, 1, 2, 4)>>)

\* I = 0x208, VF = 200, V2 = 62, then a two-row sprite drawn at (62, 8).
DrawProgram ==
  Assemble(<<Op(10, 2, 0, 8), Op(6, 15, 0, 0) + 200, Op(6, 2, 0, 0) + 62,
             Op(13, 2, 15, 2)>>) \o <<255, 129>>

\* An image of the largest size, 3584 bytes: 6007, 1202, zeros, and a last
\* byte 0xAB at 0xFFF.
FullImage ==
  [k \in 1..(MEMORY_SIZE - PROGRAM_START) |->
     IF k <= 4 THEN Assemble(<<Op(6, 0, 0, 7), Op(1, 2, 0, 2)>>)[k]
     ELSE IF k = MEMORY_SIZE - PROGRAM_START THEN 171
     ELSE 0]

Programs ==
  {SpriteProgram, SpritePreload, JumpSelf, Unsupported, DrawProgram, FullImage}

\* The arguments (program, size) of a call of loadProgram: every program
\* with its length, and buffers loaded with a smaller size, 0 included.
Loads ==
  {<<p, Len(p)>> : p \in Programs}
  \cup {<<SpritePreload, 0>>, <<DrawProgram, 6>>}

Idle == host \in {"ready", "returned"}

\* init_chip8(), the first call or a later one
CallInit ==
  /\ host = "boot" \/ Idle
  /\ calls < MaxCalls
  /\ init_chip8
  /\ host' = "ready"
  /\ calls' = calls + 1
  /\ op' = "init_chip8"
  /\ prev' = Machine
  /\ UNCHANGED hook
  /\ UNCHANGED <<opcode, numCycles, i, frames, loaded>>

\* loadProgram(program, size)
CallLoadProgram ==
  /\ Idle
  /\ calls < MaxCalls
  /\ \E l \in Loads :
       /\ loadProgram(l[1], l[2])
       /\ loaded' = l
  /\ host' = "ready"
  /\ calls' = calls + 1
  /\ op' = "loadProgram"
  /\ prev' = Machine
  /\ UNCHANGED hook
  /\ UNCHANGED <<opcode, numCycles, i, frames>>

\* runCycles(n) is entered; its loop is RunCyclesStep and RunCyclesReturn
CallRunCycles ==
  /\ Idle
  /\ calls < MaxCalls
  /\ \E n \in 0..MaxCycles : numCycles' = n
  /\ i' = 0
  /\ host' = "running"
  /\ calls' = calls + 1
  /\ op' = "runCycles"
  /\ prev' = Machine
  /\ UNCHANGED hook
  /\ UNCHANGED <<memory, V, I, pc, screen, opcode, frames, loaded>>

\* getScreen(): returns the address of screen[] and changes nothing
CallGetScreen ==
  /\ Idle
  /\ op # "getScreen"
  /\ host' = "ready"
  /\ op' = "getScreen"
  /\ prev' = Machine
  /\ UNCHANGED hook
  /\ UNCHANGED <<memory, V, I, pc, screen, opcode, numCycles, i, frames,
               calls, loaded>>

NextApi ==
  \/ CallInit
  \/ CallLoadProgram
  \/ CallRunCycles
  \/ RunCyclesStep
  \/ RunCyclesReturn
  \/ CallGetScreen

SpecApi == Init /\ [][NextApi]_vars

-----------------------------------------------------------------------------
\* The React hook useEvent (src/utils/hooks.ts) in one mounted component
\* instance.  The fields of hook: renders, the renders done; fn, the
\* callback the latest render passed; ref, the value of ref.current; deps,
\* the dependency array [fn] of the latest render; effect, the fn captured
\* by a scheduled effect that has not run yet; callback, the identity of
\* the function the latest render returned, as the number of the render
\* that created it; called, the callback the last invocation of the
\* returned function ran; op, the last step.

\* Bound of the model: renders of the component.
MaxRenders == 4

\* The callbacks a render may pass as fn.
Fns == {"f1", "f2", "f3"}

machineVars ==
  <<memory, V, I, pc, screen, opcode, numCycles, i, host, frames, op, prev,
    calls, loaded>>

\* One render calls useEvent(fn): useRef(fn) takes fn as the initial value
\* on the first render only; useEffect(..., [fn]) schedules the assignment
\* ref.current = fn on the first render and when fn differs from the
\* previous render's; useCallback(..., []) creates the returned function on
\* the first render and returns that same function afterwards.  React runs
\* the effects of a render before it renders the component again.
useEvent ==
  /\ hook.renders < MaxRenders
  /\ hook.effect = "none"
  /\ \E fn \in Fns :
       hook' = [hook EXCEPT
                  !.renders = @ + 1,
                  !.fn = fn,
                  !.ref = IF hook.renders = 0 THEN fn ELSE @,
                  !.effect = IF hook.renders = 0 \/ fn # hook.deps
                               THEN fn ELSE "none",
                  !.deps = fn,
                  !.callback = IF hook.renders = 0 THEN 1 ELSE @,
                  !.op = "render"]
  /\ UNCHANGED machineVars

\* The scheduled effect runs after the render is committed:
\* ref.current = fn
RunEffect ==
  /\ hook.effect # "none"
  /\ hook' = [hook EXCEPT !.ref = hook.effect, !.effect = "none",
                          !.op = "effect"]
  /\ UNCHANGED machineVars

\* The returned function is invoked, by an animation frame, an event
\* listener or a layout effect: (...args) => ref.current(...args)
InvokeCallback ==
  /\ hook.renders >= 1
  /\ hook' = [hook EXCEPT !.called = hook.ref, !.op = "invoke"]
  /\ UNCHANGED machineVars

NextHook ==
  \/ useEvent
  \/ RunEffect
  \/ InvokeCallback

SpecHook == Init /\ [][NextHook]_vars

-----------------------------------------------------------------------------
\* Properties of one cycle.  Cycled: the state was produced by emulateCycle,
\* which executed the word opcode from the machine state prev.

Cycled == op = "emulateCycle"

\* C1: when pc and pc + 1 are inside memory, a cycle fetches the big-endian
\* word memory[pc] << 8 | memory[pc + 1] and leaves pc at NNN for 1NNN, at
\* pc + 4 for a 3XNN whose register equals NN, at pc + 2 for any other word.
C1_FetchAndAdvance ==
  (Cycled /\ prev.pc + 1 < MEMORY_SIZE) =>
    LET w == Get(prev.memory, prev.pc) * 256 + Get(prev.memory, prev.pc + 1)
    IN  /\ opcode = w
        /\ pc = IF w \div 4096 = 1 THEN w % 4096
                ELSE IF w \div 4096 = 3 /\ prev.V[(w \div 256) % 16] = w % 256
                  THEN prev.pc + 4
                ELSE prev.pc + 2

\* A cycle fetched a word that straddles an odd address (after a jump to
\* 0x201) and stepped over it.
C1_Witness ==
  /\ Cycled
  /\ prev.pc = 513
  /\ opcode = Get(prev.memory, 513) * 256 + Get(prev.memory, 514)
  /\ Get(prev.memory, 513) # 0
  /\ pc = 515

\* C2: after 6XNN, V[X] = NN, pc has advanced by 2, and the other registers,
\* the index register, memory and the framebuffer are unchanged.
C2_LoadImmediate ==
  (Cycled /\ opcode \div 4096 = 6) =>
    LET x == (opcode \div 256) % 16
        nn == opcode % 256
    IN  /\ V[x] = nn
        /\ pc = prev.pc + 2
        /\ \A r \in 0..15 : r # x => V[r] = prev.V[r]
        /\ I = prev.I
        /\ memory = prev.memory
        /\ screen = prev.screen

\* 6XFF overwrote a non-zero register while another register, the index
\* register and the framebuffer were non-zero.
C2_Witness ==
  /\ Cycled
  /\ opcode \div 4096 = 6
  /\ opcode % 256 = 255
  /\ V[(opcode \div 256) % 16] = 255
  /\ prev.V[(opcode \div 256) % 16] = 200
  /\ \E r \in 0..15 : r # (opcode \div 256) % 16 /\ V[r] = 9
  /\ I # 0
  /\ screen # ZeroArray

\* C3: after 7XNN, V[X] = (v + NN) mod 256 for the prior value v, pc has
\* advanced by 2 and every other register (VF included when X # 0xF) is
\* unchanged, also when v + NN >= 256: no carry flag is set.
C3_AddImmediate ==
  (Cycled /\ opcode \div 4096 = 7) =>
    LET x == (opcode \div 256) % 16
        nn == opcode % 256
    IN  /\ V[x] = (prev.V[x] + nn) % 256
        /\ pc = prev.pc + 2
        /\ \A r \in 0..15 : r # x => V[r] = prev.V[r]

\* 7XNN overflowed a register other than VF.
C3_Witness ==
  /\ Cycled
  /\ opcode \div 4096 = 7
  /\ (opcode \div 256) % 16 # 15
  /\ prev.V[(opcode \div 256) % 16] + (opcode % 256) >= 256
  /\ V[(opcode \div 256) % 16] =
       prev.V[(opcode \div 256) % 16] + (opcode % 256) - 256
  /\ V[15] = prev.V[15]

\* C4: 3XNN advances pc by 4 when V[X] = NN and by 2 when V[X] # NN, and
\* changes nothing else in the machine state.
C4_SkipIfEqual ==
  (Cycled /\ opcode \div 4096 = 3) =>
    LET x == (opcode \div 256) % 16
        nn == opcode % 256
    IN  /\ prev.V[x] = nn => pc = prev.pc + 4
        /\ prev.V[x] # nn => pc = prev.pc + 2
        /\ V = prev.V
        /\ I = prev.I
        /\ memory = prev.memory
        /\ screen = prev.screen

\* 3XFF was taken on a register holding 255.
C4_Witness ==
  /\ Cycled
  /\ opcode \div 4096 = 3
  /\ opcode % 256 = 255
  /\ prev.V[(opcode \div 256) % 16] = 255
  /\ pc = prev.pc + 4
  /\ screen # ZeroArray

\* C5: after 1NNN, pc = NNN exactly whatever pc was, and the registers, the
\* index register, memory and the framebuffer are unchanged.
C5_Jump ==
  (Cycled /\ opcode \div 4096 = 1) =>
    /\ pc = opcode % 4096
    /\ V = prev.V
    /\ I = prev.I
    /\ memory = prev.memory
    /\ screen = prev.screen

\* 1NNN jumped to its own address, past the start of the program.
C5_Witness ==
  /\ Cycled
  /\ opcode \div 4096 = 1
  /\ pc = opcode % 4096
  /\ pc = prev.pc
  /\ pc > PROGRAM_START

\* C6: after ANNN, I = NNN and pc has advanced by 2, with the registers,
\* memory and the framebuffer unchanged.
C6_LoadIndex ==
  (Cycled /\ opcode \div 4096 = 10) =>
    /\ I = opcode % 4096
    /\ pc = prev.pc + 2
    /\ V = prev.V
    /\ memory = prev.memory
    /\ screen = prev.screen

\* ANNN replaced a non-zero index by an address above 255.
C6_Witness ==
  /\ Cycled
  /\ opcode \div 4096 = 10
  /\ I = opcode % 4096
  /\ I > 255
  /\ prev.I # 0
  /\ prev.I # I
  /\ screen # ZeroArray

\* C7: after 00E0, every one of the 64 * 32 framebuffer entries is 0 and pc
\* has advanced by 2, from any framebuffer content; run on a framebuffer
\* that is already clear, it leaves the framebuffer clear.
C7_ClearScreen ==
  (Cycled /\ opcode = 224) =>
    /\ \A c \in 0..(64 * 32 - 1) : Get(screen, c) = 0
    /\ pc = prev.pc + 2
    /\ (\A c \in 0..(64 * 32 - 1) : Get(prev.screen, c) = 0) =>
         screen = prev.screen

\* 00E0 ran a second time in a row, on the framebuffer the first one
\* cleared.
C7_Witness ==
  /\ Cycled
  /\ opcode = 224
  /\ i >= 2
  /\ Get(memory, prev.pc - 2) = 0
  /\ Get(memory, prev.pc - 1) = 224
  /\ prev.I # 0
  /\ \A c \in 0..(64 * 32 - 1) : Get(prev.screen, c) = 0
  /\ \A c \in 0..(64 * 32 - 1) : Get(screen, c) = 0

\* C8: after DXYN with x0 = V[X] mod 64, y0 = V[Y] mod 32 and I + N <= 4096,
\* the pixel at ((x0 + c) mod 64, (y0 + r) mod 32) equals its prior value
\* XOR bit (7 - c) of memory[I + r] for every row r < N and column c < 8,
\* every pixel outside that footprint is unchanged, and N = 0 changes no
\* pixel.
C8_DrawSprite ==
  (Cycled /\ opcode \div 4096 = 13 /\ prev.I + (opcode % 16) <= 4096) =>
    LET n == opcode % 16
        x0 == prev.V[(opcode \div 256) % 16] % 64
        y0 == prev.V[(opcode \div 16) % 16] % 32
        CellAt(r, c) == ((y0 + r) % 32) * 64 + ((x0 + c) % 64)
        BitAt(r, c) == (Get(prev.memory, prev.I + r) \div (2 ^ (7 - c))) % 2
        Toggled(a, b) == IF b = 0 THEN a ELSE IF a % 2 = 0 THEN a + 1 ELSE a - 1
        footprint == {CellAt(r, c) : r \in 0..(n - 1), c \in 0..7}
    IN  /\ \A r \in 0..(n - 1), c \in 0..7 :
             Get(screen, CellAt(r, c)) =
               Toggled(Get(prev.screen, CellAt(r, c)), BitAt(r, c))
        /\ \A cell \in (0..(64 * 32 - 1)) \ footprint :
             Get(screen, cell) = Get(prev.screen, cell)
        /\ n = 0 => screen = prev.screen

\* A 15-row sprite was drawn at (63, 31), wrapping on both axes, over a
\* framebuffer that already held pixels: some were set and some erased.
C8_Witness ==
  /\ Cycled
  /\ opcode \div 4096 = 13
  /\ opcode % 16 = 15
  /\ prev.I + 15 <= 4096
  /\ prev.V[(opcode \div 256) % 16] = 63
  /\ prev.V[(opcode \div 16) % 16] = 31
  /\ \E cell \in DOMAIN prev.screen : Get(screen, cell) = 0
  /\ \E cell \in DOMAIN screen : Get(prev.screen, cell) = 0
  /\ \E cell \in DOMAIN screen : Get(prev.screen, cell) = 1

\* C9: executing the same DXYN twice in a row, with the registers, the index
\* register and memory unchanged, restores the framebuffer to its content
\* before the first draw.  (A draw whose sprite rows lie past the end of
\* memory is undefined behaviour; no cycle follows it.)
C9_DrawTwiceRestores ==
  [][(/\ Cycled
      /\ opcode \div 4096 = 13
      /\ op' = "emulateCycle"
      /\ opcode' = opcode
      /\ V = prev.V /\ V' = V
      /\ I = prev.I /\ I' = I
      /\ memory = prev.memory /\ memory' = memory)
     => screen' = prev.screen]_vars

\* The second of two identical 15-row draws at x = 63 (columns 63, 0..6)
\* has run and changed the framebuffer, which is not blank afterwards.
C9_Witness ==
  /\ Cycled
  /\ opcode \div 4096 = 13
  /\ opcode % 16 = 15
  /\ i >= 2
  /\ prev.pc >= PROGRAM_START + 2
  /\ Get(memory, prev.pc - 2) * 256 + Get(memory, prev.pc - 1) = opcode
  /\ V[(opcode \div 256) % 16] = 63
  /\ screen # prev.screen
  /\ screen # ZeroArray
  /\ Cardinality(DOMAIN screen) < Cardinality(DOMAIN prev.screen)

\* C10: a sprite drawn with V[X] = vx, V[Y] = vy gives the framebuffer that
\* drawing it from the same framebuffer at vx mod 64, vy mod 32 gives.
C10_WrapCoordinates ==
  (Cycled /\ opcode \div 4096 = 13 /\ prev.I + (opcode % 16) <= 4096) =>
    LET n == opcode % 16
        vx == prev.V[(opcode \div 256) % 16]
        vy == prev.V[(opcode \div 16) % 16]
        sprite == [r \in 0..(n - 1) |-> Get(prev.memory, prev.I + r)]
    IN  screen = DrawRows(prev.screen, vx % 64, vy % 32, n, 0, sprite)

\* A sprite was drawn with V[X] = 70 and V[Y] = 250, both off the screen.
C10_Witness ==
  /\ Cycled
  /\ opcode \div 4096 = 13
  /\ opcode % 16 >= 8
  /\ prev.V[(opcode \div 256) % 16] = 70
  /\ prev.V[(opcode \div 16) % 16] = 250
  /\ screen # prev.screen

\* C11: a cycle executing DXYN changes only the framebuffer and pc: every
\* register (VF included), the index register and memory are as before the
\* draw, also when the draw turned a set pixel off, and pc has advanced by 2.
C11_DrawKeepsRegisters ==
  (Cycled /\ opcode \div 4096 = 13) =>
    /\ \A r \in 0..15 : V[r] = prev.V[r]
    /\ I = prev.I
    /\ memory = prev.memory
    /\ pc = prev.pc + 2

\* A draw turned a set pixel off and set none, with VF holding 200 before
\* and after.
C11_Witness ==
  /\ Cycled
  /\ opcode \div 4096 = 13
  /\ opcode % 16 > 0
  /\ \E cell \in DOMAIN prev.screen : Get(screen, cell) = 0
  /\ \A cell \in DOMAIN screen : Get(prev.screen, cell) = 1
  /\ prev.V[15] = 200
  /\ V[15] = 200

\* C12: a cycle executing a word that is not 00E0, 1NNN, 3XNN, 6XNN, 7XNN,
\* ANNN or DXYN (00EE, any other 0NNN, 2NNN, FXNN, families 4, 5, 8, 9, B,
\* C, E) leaves the registers, the index register, memory and the
\* framebuffer unchanged and advances pc by exactly 2.
C12_UnsupportedIsNoOp ==
  (/\ Cycled
   /\ opcode # 224
   /\ opcode \div 4096 \notin {1, 3, 6, 7, 10, 13}) =>
    /\ V = prev.V
    /\ I = prev.I
    /\ memory = prev.memory
    /\ screen = prev.screen
    /\ pc = prev.pc + 2

\* 2123 was fetched from inside the program and stepped over, with a
\* register, the index register and the framebuffer non-zero.
C12_Witness ==
  /\ Cycled
  /\ opcode = 8483
  /\ prev.pc + 1 < MEMORY_SIZE
  /\ pc = prev.pc + 2
  /\ \E r \in 0..15 : V[r] = 200
  /\ I # 0
  /\ screen # ZeroArray

-----------------------------------------------------------------------------
\* Properties of the exported functions.

\* C13: runCycles(n) runs emulateCycle exactly n times: entering the call
\* changes nothing and starts the count at 0; while fewer than n cycles have
\* run the next step is a cycle, whatever word it executes, and counts one;
\* the call returns only when exactly n have run, and returning changes
\* nothing and has the one outcome "returned".  So runCycles(0) changes
\* nothing.
C13_RunCyclesExact ==
  [][/\ op' = "runCycles" => (i' = 0 /\ Machine' = Machine)
     /\ (host = "running" /\ i < numCycles) =>
          /\ op' = "emulateCycle"
          /\ i' = i + 1
          /\ numCycles' = numCycles
     /\ (host = "running" /\ i >= numCycles) =>
          /\ op' = "return"
          /\ host' = "returned"
          /\ i = numCycles
          /\ Machine' = Machine]_vars

\* runCycles(4) returned after four cycles of a program that jumps to its
\* own address.
C13_Witness ==
  /\ op = "return"
  /\ numCycles = 4
  /\ i = 4
  /\ opcode = 4608
  /\ pc = 512
  /\ Get(memory, 512) = 18
  /\ Get(memory, 513) = 0

\* C14: after init_chip8, called from any reachable state, the 16 registers
\* are 0, the index register is 0, every framebuffer entry is 0 and
\* pc = 0x200.
C14_ResetZeroes ==
  op = "init_chip8" =>
    /\ \A r \in 0..15 : V[r] = 0
    /\ I = 0
    /\ \A c \in 0..(64 * 32 - 1) : Get(screen, c) = 0
    /\ pc = 512

\* init_chip8 was called after a program had set VF and the index register,
\* drawn on the framebuffer and moved pc.
C14_Witness ==
  /\ op = "init_chip8"
  /\ prev.V[15] = 200
  /\ prev.I = 520
  /\ prev.screen # ZeroArray
  /\ prev.pc > 512
  /\ V[15] = 0
  /\ I = 0
  /\ screen = ZeroArray
  /\ pc = 512

\* C15: after loadProgram(bytes, size) with 0 <= size <= 3584,
\* memory[0x200 + k] = bytes[k] for every k < size, pc = 0x200, and every
\* memory byte outside [0x200, 0x200 + size) has the value it had before.
C15_LoadCopies ==
  (op = "loadProgram" /\ loaded[2] >= 0 /\ loaded[2] <= 3584) =>
    LET bytes == loaded[1]
        size == loaded[2]
    IN  /\ \A k \in 0..(size - 1) : Get(memory, 512 + k) = bytes[k + 1]
        /\ pc = 512
        /\ \A a \in 0..4095 :
             (a < 512 \/ a >= 512 + size) =>
               Get(memory, a) = Get(prev.memory, a)

\* Eight bytes were loaded over an image that filled memory to 0xFFF: the
\* last byte of the old image, at 0xFFF, is still there.
C15_Witness ==
  /\ op = "loadProgram"
  /\ loaded[2] = 8
  /\ Get(prev.memory, 4095) = 171
  /\ Get(memory, 4095) = 171
  /\ Get(prev.memory, 512) = 96
  /\ Get(memory, 512) = 162
  /\ Get(memory, 519) = 17
  /\ pc = 512

\* C16 as claimed: a load re-zeroes state.  After loadProgram, called when
\* the last runCycles executed at least one cycle, all registers and the
\* index register are 0, the framebuffer is all 0, pc = 0x200 and memory
\* from 0x200 holds the bytes of the new program.
C16_LoadRezeroes ==
  (op = "loadProgram" /\ i > 0) =>
    /\ \A r \in 0..15 : V[r] = 0
    /\ I = 0
    /\ \A c \in 0..(64 * 32 - 1) : Get(screen, c) = 0
    /\ pc = 512
    /\ \A k \in 0..(loaded[2] - 1) : Get(memory, 512 + k) = loaded[1][k + 1]

\* C16 amended: loadProgram, also after a previous program has executed
\* cycles, sets pc = 0x200 and copies the new program to 0x200.., and leaves
\* the registers, the index register and the framebuffer exactly as they
\* were before the call; they are 0 after the load when they were 0 before
\* it, as after the init_chip8 the host calls first.
C16_LoadKeepsState ==
  op = "loadProgram" =>
    /\ pc = 512
    /\ \A k \in 0..(loaded[2] - 1) : Get(memory, 512 + k) = loaded[1][k + 1]
    /\ V = prev.V
    /\ I = prev.I
    /\ screen = prev.screen
    /\ ((\A r \in 0..15 : prev.V[r] = 0) /\ prev.I = 0 /\ prev.screen = ZeroArray)
         => ((\A r \in 0..15 : V[r] = 0) /\ I = 0 /\ screen = ZeroArray)

\* A two-byte program was loaded after another program had run four cycles:
\* pc is back at 0x200 and the new bytes are in place, while VF, V2, the
\* index register and the drawn pixels are those the old program left.
C16_Witness ==
  /\ op = "loadProgram"
  /\ i = 4
  /\ loaded[2] = 2
  /\ prev.pc = 520
  /\ pc = 512
  /\ Get(memory, 512) = 18
  /\ Get(memory, 513) = 0
  /\ V[15] = 200
  /\ V[2] = 62
  /\ I = 520
  /\ screen # ZeroArray
  /\ screen = prev.screen

\* C17: for every register X and byte NN, from a reset machine the first
\* cycle after loadProgram([0x60 | X, NN], 2) executes the word 6XNN formed
\* from the two program bytes and leaves V[X] = NN and pc = 0x202.
C17_LoadThenOneCycle ==
  (/\ Cycled
   /\ i = 1
   /\ frames = 0
   /\ loaded[2] = 2
   /\ loaded[1][1] \div 16 = 6) =>
    LET x == loaded[1][1] % 16
        nn == loaded[1][2]
    IN  /\ opcode = (96 + x) * 256 + nn
        /\ V[x] = nn
        /\ pc = 514

\* The first cycle after loading [0x6F, 0xFF] left VF = 255, pc = 0x202.
C17_Witness ==
  /\ Cycled
  /\ i = 1
  /\ frames = 0
  /\ loaded = <<<<111, 255>>, 2>>
  /\ prev.pc = 512
  /\ \A r \in 0..15 : prev.V[r] = 0
  /\ V[15] = 255
  /\ pc = 514

\* C18: from a reset machine with memory[0x210] = 0xFF, after
\* loadProgram([0xA2, 0x10, 0x60, 0x00, 0x61, 0x00, 0xD0, 0x11], 8) and
\* runCycles(4): I = 0x210, pc = 0x208, the framebuffer entries of row 0,
\* columns 0..7 are 1 and every other entry is 0, and memory[0x210] is still
\* 0xFF.  The caller's four calls were init_chip8, the load that put 0xFF
\* at 0x210, the load of the eight bytes and runCycles(4).
C18_SpriteScenario ==
  (/\ calls = 4
   /\ op = "return"
   /\ numCycles = 4
   /\ loaded = <<SpriteProgram, 8>>
   /\ Get(prev.memory, 528) = 255) =>
    /\ I = 528
    /\ pc = 520
    /\ \A c \in 0..(64 * 32 - 1) : Get(screen, c) = IF c <= 7 THEN 1 ELSE 0
    /\ Get(memory, 528) = 255
    /\ \A k \in 0..7 : Get(memory, 512 + k) = SpriteProgram[k + 1]

\* runCycles(4) returned in that scenario with the eight pixels set.
C18_Witness ==
  /\ calls = 4
  /\ op = "return"
  /\ numCycles = 4
  /\ i = 4
  /\ loaded = <<SpriteProgram, 8>>
  /\ Get(memory, 528) = 255
  /\ opcode = 53265
  /\ I = 528
  /\ pc = 520
  /\ DOMAIN screen = 0..7

\* C19: in every state reachable from init_chip8 by any sequence of
\* init_chip8, loadProgram and cycles, every one of the 64 * 32 framebuffer
\* entries that getScreen exposes is 0 or 1.
C19_PixelsAreBits ==
  host # "boot" => \A c \in 0..(64 * 32 - 1) : Get(screen, c) \in {0, 1}

\* getScreen was called on a framebuffer that a draw wrapping around the
\* right edge had written: it holds pixels that are set and pixels the
\* sprite left clear.
C19_Witness ==
  /\ op = "getScreen"
  /\ opcode \div 4096 = 13
  /\ Get(screen, 8 * 64 + 62) = 1
  /\ Get(screen, 8 * 64 + 0) = 1
  /\ Get(screen, 9 * 64 + 62) = 1
  /\ Get(screen, 9 * 64 + 63) = 0
  /\ Get(screen, 9 * 64 + 5) = 1
  /\ Cardinality(DOMAIN screen) = 10

\* C20: in every state reachable from init_chip8 and loadProgram by cycles,
\* pc references two bytes inside memory before the fetch: pc >= 0 and
\* pc + 1 <= 4095.  (Stated of the states in which runCycles is executing
\* and no cycle has yet read outside memory.)
C20_PcInBounds ==
  host = "running" => (pc >= 0 /\ pc + 1 <= 4095)

-----------------------------------------------------------------------------
\* Properties of the host session.

\* C21: in the host loop the engine and the framebuffer reads alternate.  A
\* call of runCycles starts only when init_chip8 and loadProgram have
\* completed, directly after the load or after the previous frame's read;
\* cycles run only inside a call; and the framebuffer is read only directly
\* after a call of runCycles has returned with all its cycles executed,
\* never while one is executing.
C21_HostAlternates ==
  [][/\ op' = "runCycles" =>
          /\ host = "ready"
          /\ op \in {"loadProgram", "getScreen"}
          /\ loaded # <<<<>>, 0>>
     /\ op' = "emulateCycle" => host = "running"
     /\ op' = "getScreen" =>
          /\ op = "return"
          /\ host = "returned"
          /\ i = numCycles]_vars

\* The second frame's read, made after the second call of runCycles
\* returned, of a framebuffer that a program has drawn on.
C21_Witness ==
  /\ op = "getScreen"
  /\ frames = 2
  /\ host = "ready"
  /\ i = 10
  /\ numCycles = 10
  /\ screen # ZeroArray

-----------------------------------------------------------------------------
\* Properties of the hook.

\* C22: the function useEvent returns is the same function in every render,
\* and whenever it is invoked after a render that passed fn, also before
\* that render's effect has run, it calls the fn of the most recent render.
C22_StableAndLatest ==
  /\ hook.renders >= 1 => hook.callback = 1
  /\ hook.op = "invoke" => hook.called = hook.fn

-----------------------------------------------------------------------------
\* Properties of the machine state over whole runs.

\* C23 as claimed: in every state reachable from init_chip8 and loadProgram
\* by cycles, for any program image, pc is even.
C23_PcEven ==
  host \in {"ready", "running", "returned"} => pc % 2 = 0

\* C23 amended: pc is even after init_chip8 and after loadProgram, and a
\* cycle changes the parity of pc only by a jump: after 1NNN the parity of
\* pc is that of NNN, after any other word it is the parity pc had before.
C23_ParityChangesOnlyByJump ==
  /\ op \in {"init_chip8", "loadProgram"} => pc % 2 = 0
  /\ Cycled =>
       pc % 2 = IF opcode \div 4096 = 1 THEN opcode % 2 ELSE prev.pc % 2

\* After a jump to an odd address, a word fetched from an odd pc was
\* executed and left pc odd.
C23_Witness ==
  /\ Cycled
  /\ i >= 2
  /\ opcode \div 4096 # 1
  /\ prev.pc % 2 = 1
  /\ prev.pc + 1 < MEMORY_SIZE
  /\ pc = prev.pc + 2
  /\ pc % 2 = 1

\* C24: memory is written only by loadProgram: a cycle (whatever word it
\* executes), the entry and the return of runCycles, getScreen and
\* init_chip8 leave all 4096 memory bytes as they were, so a loaded program
\* is not modified by running and survives a reset.
C24_OnlyLoadWritesMemory ==
  op \in {"init_chip8", "runCycles", "emulateCycle", "return", "getScreen"} =>
    \A a \in DOMAIN memory \cup DOMAIN prev.memory :
      Get(memory, a) = Get(prev.memory, a)

\* init_chip8 was called after a loaded program had run and drawn: the
\* program is still in memory.
C24_Witness ==
  /\ op = "init_chip8"
  /\ i = 4
  /\ opcode \div 4096 = 13
  /\ prev.screen # ZeroArray
  /\ loaded[2] = 10
  /\ \A k \in 0..9 : Get(memory, 512 + k) = loaded[1][k + 1]
  /\ Get(memory, 512) = 162

\* C25: in every state reachable by init_chip8, loadProgram and cycles the
\* index register is at most 0x0FFF.
C25_IndexIsTwelveBits ==
  I >= 0 /\ I <= 4095

\* AFFF, fetched from the start of a loaded program, has put the largest
\* value, 0xFFF, into the index register.
C25_Witness ==
  /\ Cycled
  /\ opcode = 45055
  /\ prev.pc = 512
  /\ prev.I = 0
  /\ I = 4095

-----------------------------------------------------------------------------
\* Properties of the footprint of one draw.

\* The cells that the loop body of DXYN writes for (row, col) when the
\* sprite bit is 1, drawing at register values x, y.
TargetCells(x, y, row, col) ==
  DOMAIN DrawPixel(ZeroArray, x, y, row, col, 255)

\* The pixels of a sprite drawn in the opposite order: the columns of a
\* row from 7 down to 0, the rows from the last down to the first.
RECURSIVE DrawColsReversed(_, _, _, _, _, _)
DrawColsReversed(scr, x, y, row, col, spriteByte) ==
  IF col >= 0
    THEN CHOOSE done \in
           {DrawColsReversed(s, x, y, row, c, spriteByte) :
              s \in {DrawPixel(scr, x, y, row, col, spriteByte)},
              c \in {col - 1}} : TRUE
    ELSE scr

RECURSIVE DrawRowsReversed(_, _, _, _, _)
DrawRowsReversed(scr, x, y, row, sprite) ==
  IF row >= 0
    THEN CHOOSE done \in
           {DrawRowsReversed(s, x, y, r, sprite) :
              s \in {DrawColsReversed(scr, x, y, row, 7, sprite[row])},
              r \in {row - 1}} : TRUE
    ELSE scr

\* C26: within one DXYN, for any register values and any height N <= 15,
\* every (row, column) pair targets one cell and no cell is targeted by two
\* pairs, so the N * 8 pairs target N * 8 cells; and the framebuffer the
\* draw leaves is the one that visiting the pairs in the opposite order
\* leaves.
C26_NoCellTwice ==
  (Cycled /\ opcode \div 4096 = 13) =>
    LET n == opcode % 16
        x == prev.V[(opcode \div 256) % 16]
        y == prev.V[(opcode \div 16) % 16]
        pairs == (0..(n - 1)) \X (0..7)
        sprite == [r \in 0..(n - 1) |-> Get(prev.memory, prev.I + r)]
        targets == {<<p, TargetCells(x, y, p[1], p[2])>> : p \in pairs}
    IN  /\ \A ts \in {targets} :
             /\ \A t \in ts : Cardinality(t[2]) = 1
             /\ Cardinality(UNION {t[2] : t \in ts}) = n * 8
        /\ prev.I + n <= 4096 =>
             screen = DrawRowsReversed(prev.screen, x, y, n - 1, sprite)

\* A 15-row sprite was drawn at (63, 31), wrapping on both axes, over
\* pixels already set, and changed the framebuffer.
C26_Witness ==
  /\ Cycled
  /\ opcode \div 4096 = 13
  /\ opcode % 16 = 15
  /\ prev.I + 15 <= 4096
  /\ prev.V[(opcode \div 256) % 16] = 63
  /\ prev.V[(opcode \div 16) % 16] = 31
  /\ prev.screen # ZeroArray
  /\ screen # prev.screen
  /\ Get(screen, 31 * 64 + 63) # Get(prev.screen, 31 * 64 + 63)

=============================================================================
